---- MODULE Spec2Model ----
(***************************************************************************)
(* Model of the recording-session orchestrator of src/app.py.              *)
(*                                                                         *)
(* The registry is the module-level dict active_sessions, guarded by       *)
(* sessions_lock.  One background task (record_meeting_session) runs per   *)
(* accepted submission, in a worker thread, and is the only writer of its  *)
(* record.  The request handlers are coroutines without a suspension       *)
(* point, so the event loop runs them one at a time; they interleave with  *)
(* the background tasks at every point where a handler is outside the      *)
(* lock.                                                                   *)
(***************************************************************************)
EXTENDS Integers, Sequences, FiniteSets, TLC

\* Number of submissions the model accepts.
MaxJobs == 1

JobIds == 1..MaxJobs

\* Python's None.
Null == "null"

\* An Optional[int] request field: <<>> is None, <<n>> is the integer n.
DurationInputs == {<<>>, <<0>>, <<0 - 1>>, <<30>>}

DefaultDuration == 30

\* Request URLs, each with what the three patterns of extract_meeting_id
\* capture from it (Null when the pattern does not match).
MeetingUrls ==
    { [text |-> "https://meet.google.com/xyz-abcd-efg",
       code |-> "xyz-abcd-efg", query |-> Null, other |-> "xyz-abcd-efg"],
      [text |-> "https://example.com/xyz-abcd-efg",
       code |-> Null, query |-> Null, other |-> Null] }

VARIABLES
    active_sessions,  \* the registry: session id -> record (a dict of fields)
    task,             \* per job: the background task's position and locals
    disk,             \* file name -> "absent" | "empty" | "full"
    calls,            \* per job: how often each collaborator was invoked
    failures,         \* per job: the collaborator failures that occurred
    ignored,          \* the jobs that had an update dropped for a missing id
    next_id,          \* the next fresh session id (uuid4 never repeats)
    req,              \* the request handler the event loop is running
    view,             \* the last response a client received, as the client holds it
    lock,             \* sessions_lock: the set of threads holding it (at most one)
    thread,           \* per thread: the registry operation it is in and its position
    capture,          \* one call of the capture function, statement by statement
    removers          \* per caller of DELETE: the request it sent and the answer it got

\* The variables of the program; view belongs to its clients.
program_vars == <<active_sessions, task, disk, calls, failures, ignored, next_id, req>>

\* The variables of the detailed views: the registry operations at the level
\* of the lock, the capture function at the level of its statements, and the
\* callers of DELETE.
detail_vars == <<lock, thread, capture, removers>>

vars == <<active_sessions, task, disk, calls, failures, ignored, next_id, req, view,
          lock, thread, capture, removers>>

OutputFile(j) == "recording_" \o ToString(j) \o ".mp3"

Files == {OutputFile(j) : j \in JobIds}

Terminal == {"completed", "recording_failed", "upload_failed", "error"}

FailureTerminal == {"recording_failed", "upload_failed", "error"}

Idle == [op |-> "idle"]

NoView == [op |-> "none"]

NoCalls ==
    [chrome |-> 0, login |-> 0, join |-> 0, capture |-> 0, upload |-> 0, quit |-> 0]

\* Number of worker threads that run background tasks side by side.
MaxWorkers == 2

\* Thread 0 is the event loop, which runs the request handlers; the others
\* are the workers of the thread pool.
Threads == 0..MaxWorkers

\* A thread that is in no registry operation.
Resting == [op |-> "none", pc |-> 0]

\* Number of clients that send a DELETE for the same session at the same time.
MaxRemovers == 2

Removers == 1..MaxRemovers

\* A caller that has not sent its request.
NotSent == [state |-> "idle", session_id |-> 0]

\* No call of the capture function has been made.
NotCalled ==
    [fn |-> "none", duration |-> 0, pc |-> "done", process |-> "none",
     signals |-> <<>>, timed_out |-> FALSE, pending |-> Null, file |-> "absent",
     result |-> "none"]

NotDispatched ==
    [pc |-> "none", upload_to_drive_flag |-> FALSE, duration_minutes |-> 0,
     driver |-> "unset", exc |-> Null, upload_result |-> Null]

----------------------------------------------------------------------------
\* Registry primitives.

\* update_session_status writing the status and the keyword arguments in two
\* separate critical sections, seen between the two.
update_session_status_StatusFirst(sessions, session_id, status, kwargs) ==
    IF session_id \in DOMAIN sessions
    THEN [sessions EXCEPT ![session_id].status = status]
    ELSE sessions

\* update_session_status without the look-up by id: the assignment reaches
\* every record of the map.
update_session_status_EveryRecord(sessions, session_id, status, kwargs) ==
    [i \in DOMAIN sessions |->
        [f \in DOMAIN sessions[i] \cup DOMAIN kwargs \cup {"status"} |->
            IF f = "status" THEN status
            ELSE IF f \in DOMAIN kwargs THEN kwargs[f]
            ELSE sessions[i][f]]]

\* update_session_status with the membership test left out: a missing id is
\* inserted again.
update_session_status_Inserts(sessions, session_id, status, kwargs) ==
    [i \in DOMAIN sessions \cup {session_id} |->
        [f \in (IF i \in DOMAIN sessions THEN DOMAIN sessions[i] ELSE {})
               \cup DOMAIN kwargs \cup {"status"} |->
            IF i # session_id THEN sessions[i][f]
            ELSE IF f = "status" THEN status
            ELSE IF f \in DOMAIN kwargs THEN kwargs[f]
            ELSE sessions[i][f]]]

\* update_session_status: under the lock, set status and every keyword
\* argument on the record if the id is in the map; otherwise do nothing.
update_session_status(sessions, session_id, status, kwargs) ==
    IF session_id \in DOMAIN sessions
    THEN [sessions EXCEPT ![session_id] =
            [f \in DOMAIN @ \cup DOMAIN kwargs \cup {"status"} |->
                IF f = "status" THEN status
                ELSE IF f \in DOMAIN kwargs THEN kwargs[f]
                ELSE @[f]]]
    ELSE sessions

NoKwargs == <<>>

\* get_session_data: under the lock, a copy of the record, <<copy>>, or
\* None, <<>>.
get_session_data(sessions, session_id) ==
    IF session_id \in DOMAIN sessions THEN <<sessions[session_id]>> ELSE <<>>

\* Variant of extract_meeting_id that falls back to the whole URL instead of
\* raising.
extract_meeting_id_NoRaise(url) ==
    IF url.code # Null THEN url.code
    ELSE IF url.query # Null THEN url.query
    ELSE IF url.other # Null THEN url.other
    ELSE url.text

\* extract_meeting_id: the first pattern that matches decides; no match raises
\* ValueError.
extract_meeting_id(url) ==
    IF url.code # Null THEN url.code
    ELSE IF url.query # Null THEN url.query
    ELSE IF url.other # Null THEN url.other
    ELSE "ValueError"

----------------------------------------------------------------------------
Init ==
    /\ active_sessions = <<>>
    /\ task = [j \in JobIds |-> NotDispatched]
    /\ disk = [f \in Files |-> "absent"]
    /\ calls = [j \in JobIds |-> NoCalls]
    /\ failures = [j \in JobIds |-> {}]
    /\ ignored = {}
    /\ next_id = 1
    /\ req = Idle
    /\ view = NoView
    /\ lock = {}
    /\ thread = [t \in Threads |-> Resting]
    /\ capture = NotCalled
    /\ removers = [c \in Removers |-> NotSent]

----------------------------------------------------------------------------
\* Orchestrator facade: submission.

DefaultFolder == "Meeting Recordings"

\* Variant of start_meeting_recording that runs the task's first stage before
\* it answers.
start_meeting_recording_AwaitsTask(request) ==
    /\ req = Idle
    /\ next_id <= MaxJobs
    /\ IF extract_meeting_id(request.meeting_url) = "ValueError"
       THEN UNCHANGED program_vars
       ELSE LET session_id == next_id
                duration_minutes ==
                    IF request.duration_minutes = <<>> \/ request.duration_minutes[1] = 0
                    THEN DefaultDuration
                    ELSE request.duration_minutes[1]
                upload_to_drive ==
                    IF request.upload_to_drive # <<>>
                    THEN request.upload_to_drive[1]
                    ELSE TRUE
            IN  /\ active_sessions' =
                     [i \in DOMAIN active_sessions \cup {session_id} |->
                        IF i = session_id
                        THEN [session_id |-> session_id,
                              meeting_url |-> request.meeting_url.text,
                              meeting_id |-> extract_meeting_id(request.meeting_url),
                              duration_minutes |-> duration_minutes,
                              upload_to_drive |-> upload_to_drive,
                              folder_name |-> DefaultFolder,
                              status |-> "starting",
                              created_at |-> next_id,
                              recording_file |-> Null,
                              drive_link |-> Null,
                              error_message |-> Null]
                        ELSE active_sessions[i]]
                /\ task' = [task EXCEPT ![session_id] =
                              [pc |-> "credentials",
                               upload_to_drive_flag |-> upload_to_drive,
                               duration_minutes |-> duration_minutes,
                               driver |-> "unset",
                               exc |-> Null,
                               upload_result |-> Null]]
                /\ next_id' = next_id + 1
                /\ UNCHANGED <<disk, calls, failures, ignored, req>>

\* start_meeting_recording: validate the URL, default the optional fields,
\* insert the record in stage queued under the lock and add the background
\* task, which the framework starts after the response has been sent.  An
\* invalid URL is answered 400 before anything is created.
start_meeting_recording(request) ==
    /\ req = Idle
    /\ next_id <= MaxJobs
    /\ IF extract_meeting_id(request.meeting_url) = "ValueError"
       THEN UNCHANGED program_vars
       ELSE LET session_id == next_id
                duration_minutes ==
                    IF request.duration_minutes = <<>> \/ request.duration_minutes[1] = 0
                    THEN DefaultDuration
                    ELSE request.duration_minutes[1]
                upload_to_drive ==
                    IF request.upload_to_drive # <<>>
                    THEN request.upload_to_drive[1]
                    ELSE TRUE
            IN  /\ active_sessions' =
                     [i \in DOMAIN active_sessions \cup {session_id} |->
                        IF i = session_id
                        THEN [session_id |-> session_id,
                              meeting_url |-> request.meeting_url.text,
                              meeting_id |-> extract_meeting_id(request.meeting_url),
                              duration_minutes |-> duration_minutes,
                              upload_to_drive |-> upload_to_drive,
                              folder_name |-> DefaultFolder,
                              status |-> "queued",
                              created_at |-> next_id,
                              recording_file |-> Null,
                              drive_link |-> Null,
                              error_message |-> Null]
                        ELSE active_sessions[i]]
                /\ task' = [task EXCEPT ![session_id] =
                              [pc |-> "queued",
                               upload_to_drive_flag |-> upload_to_drive,
                               duration_minutes |-> duration_minutes,
                               driver |-> "unset",
                               exc |-> Null,
                               upload_result |-> Null]]
                /\ next_id' = next_id + 1
                /\ UNCHANGED <<disk, calls, failures, ignored, req>>

UploadInputs == {<<>>, <<TRUE>>, <<FALSE>>}

Requests ==
    [meeting_url : MeetingUrls,
     duration_minutes : DurationInputs,
     upload_to_drive : UploadInputs]

\* A submission whose response nobody keeps.
Submit ==
    \E request \in Requests : start_meeting_recording(request) /\ UNCHANGED <<view, detail_vars>>

----------------------------------------------------------------------------
\* Pipeline executor: record_meeting_session, one step per statement that
\* takes the lock or calls a collaborator.

Goto(j, pc) == task' = [task EXCEPT ![j].pc = pc]

\* An exception raised inside the inner try when the try has no finally
\* clause: the session is not released.
RaiseInner_SkipsFinally(j, message, failure) ==
    /\ task' = [task EXCEPT ![j].pc = "except", ![j].exc = message]
    /\ failures' = [failures EXCEPT ![j] = @ \cup {failure}]

\* An exception raised inside the inner try: control goes to the finally
\* clause with the exception pending.
RaiseInner(j, message, failure) ==
    /\ task' = [task EXCEPT ![j].pc = "finally", ![j].exc = message]
    /\ failures' = [failures EXCEPT ![j] = @ \cup {failure}]

\* An exception raised before the inner try when the outer try does not
\* cover that statement: it leaves the function.
RaiseOuter_Uncaught(j, message, failure) ==
    /\ task' = [task EXCEPT ![j].pc = "raised", ![j].exc = message]
    /\ failures' = [failures EXCEPT ![j] = @ \cup {failure}]

\* An exception raised before the inner try: control goes to the handler.
RaiseOuter(j, message, failure) ==
    /\ task' = [task EXCEPT ![j].pc = "except", ![j].exc = message]
    /\ failures' = [failures EXCEPT ![j] = @ \cup {failure}]

\* One call of update_session_status by the task of job j.
Update(j, status, kwargs) ==
    /\ active_sessions' = update_session_status(active_sessions, j, status, kwargs)
    /\ ignored' = IF j \in DOMAIN active_sessions THEN ignored ELSE ignored \cup {j}

Called(j, collaborator) ==
    calls' = [calls EXCEPT ![j][collaborator] = @ + 1]

\* line 196
ExecStarting(j) ==
    /\ task[j].pc = "queued"
    /\ Update(j, "starting", NoKwargs)
    /\ Goto(j, "credentials")
    /\ UNCHANGED <<disk, calls, failures, next_id, req, view, detail_vars>>

\* lines 199-203: the credentials come from the environment
ExecCredentials(j) ==
    /\ task[j].pc = "credentials"
    /\ \E found \in BOOLEAN :
         IF found
         THEN Goto(j, "chrome") /\ UNCHANGED failures
         ELSE RaiseOuter(j, "Gmail credentials not found in environment variables",
                         "credentials")
    /\ UNCHANGED <<active_sessions, disk, calls, ignored, next_id, req, view, detail_vars>>

\* lines 206-207: the automation session is opened, or its creation raises
ExecChrome(j) ==
    /\ task[j].pc = "chrome"
    /\ \E opened \in BOOLEAN :
         IF opened
         THEN /\ task' = [task EXCEPT ![j].pc = "logging_in", ![j].driver = "open"]
              /\ Called(j, "chrome")
              /\ UNCHANGED failures
         ELSE RaiseOuter(j, "WebDriverException", "chrome") /\ UNCHANGED calls
    /\ UNCHANGED <<active_sessions, disk, ignored, next_id, req, view, detail_vars>>

\* line 211
ExecLoggingIn(j) ==
    /\ task[j].pc = "logging_in"
    /\ Update(j, "logging_in", NoKwargs)
    /\ Goto(j, "google_login")
    /\ UNCHANGED <<disk, calls, failures, next_id, req, view, detail_vars>>

\* The login step with the result of google_login ignored.
ExecGoogleLogin_IgnoresResult(j) ==
    /\ task[j].pc = "google_login"
    /\ Called(j, "login")
    /\ \E logged_in \in BOOLEAN :
         /\ Goto(j, "joining_meeting")
         /\ failures' = IF logged_in THEN failures
                        ELSE [failures EXCEPT ![j] = @ \cup {"login"}]
    /\ UNCHANGED <<active_sessions, disk, ignored, next_id, req, view, detail_vars>>

\* lines 212-213: google_login returns True, or False after catching whatever
\* went wrong; False is turned into an exception
ExecGoogleLogin(j) ==
    /\ task[j].pc = "google_login"
    /\ Called(j, "login")
    /\ \E logged_in \in BOOLEAN :
         IF logged_in
         THEN Goto(j, "joining_meeting") /\ UNCHANGED failures
         ELSE RaiseInner(j, "Failed to login to Google account", "login")
    /\ UNCHANGED <<active_sessions, disk, ignored, next_id, req, view, detail_vars>>

\* line 216
ExecJoiningMeeting(j) ==
    /\ task[j].pc = "joining_meeting"
    /\ Update(j, "joining_meeting", NoKwargs)
    /\ Goto(j, "join")
    /\ UNCHANGED <<disk, calls, failures, next_id, req, view, detail_vars>>

\* Variant of lines 217-225 that tries the join a second time after a first
\* timeout.
ExecJoin_RetriesOnTimeout(j) ==
    /\ task[j].pc = "join"
    /\ Called(j, "join")
    /\ \E joined \in BOOLEAN :
         IF joined
         THEN Goto(j, "recording") /\ UNCHANGED failures
         ELSE IF calls[j].join = 0
         THEN Goto(j, "join") /\ UNCHANGED failures
         ELSE RaiseInner(j, "TimeoutException", "join")
    /\ UNCHANGED <<active_sessions, disk, ignored, next_id, req, view, detail_vars>>

\* lines 217-225: load the meeting page, wait at most 15 s for the join
\* button and click it; a timeout or any driver error raises
ExecJoin(j) ==
    /\ task[j].pc = "join"
    /\ Called(j, "join")
    /\ \E joined \in BOOLEAN :
         IF joined
         THEN Goto(j, "recording") /\ UNCHANGED failures
         ELSE RaiseInner(j, "TimeoutException", "join")
    /\ UNCHANGED <<active_sessions, disk, ignored, next_id, req, view, detail_vars>>

\* Variant of line 228 that names the output file when the capture starts.
ExecRecording_NamesFileEarly(j) ==
    /\ task[j].pc = "recording"
    /\ Update(j, "recording", [recording_file |-> OutputFile(j)])
    /\ Goto(j, "start_recording")
    /\ UNCHANGED <<disk, calls, failures, next_id, req, view, detail_vars>>

\* line 228
ExecRecording(j) ==
    /\ task[j].pc = "recording"
    /\ Update(j, "recording", NoKwargs)
    /\ Goto(j, "start_recording")
    /\ UNCHANGED <<disk, calls, failures, next_id, req, view, detail_vars>>

\* start_recording: what one call can do.  Starting ffmpeg may raise (no file
\* is written); sleeping a negative time raises after ffmpeg was started and
\* terminated; otherwise ffmpeg is terminated after the sleep and the call
\* returns os.path.exists(output_file), whatever the file holds.
start_recording(duration_seconds) ==
    IF duration_seconds < 0
    THEN [raised : {TRUE}, file : {"absent", "empty"}]
    ELSE [raised : {TRUE}, file : {"absent"}]
         \cup [raised : {FALSE}, file : {"absent", "empty", "full"}]

\* lines 229-232
ExecStartRecording(j) ==
    /\ task[j].pc = "start_recording"
    /\ Called(j, "capture")
    /\ \E outcome \in start_recording(task[j].duration_minutes * 60) :
         /\ disk' = [disk EXCEPT ![OutputFile(j)] = outcome.file]
         /\ IF outcome.raised
            THEN RaiseInner(j, "capture error", "capture_raised")
            ELSE IF outcome.file # "absent"
            THEN Goto(j, "recording_complete") /\ UNCHANGED failures
            ELSE /\ Goto(j, "recording_failed")
                 /\ failures' = [failures EXCEPT ![j] = @ \cup {"capture_false"}]
    /\ UNCHANGED <<active_sessions, ignored, next_id, req, view, detail_vars>>

\* The step after a successful capture with the upload flag ignored.
ExecRecordingComplete_AlwaysUploads(j) ==
    /\ task[j].pc = "recording_complete"
    /\ Update(j, "recording_complete", [recording_file |-> OutputFile(j)])
    /\ Goto(j, "uploading")
    /\ UNCHANGED <<disk, calls, failures, next_id, req, view, detail_vars>>

\* line 235, then the branch of line 238
ExecRecordingComplete(j) ==
    /\ task[j].pc = "recording_complete"
    /\ Update(j, "recording_complete",
                                                [recording_file |-> OutputFile(j)])
    /\ Goto(j, IF task[j].upload_to_drive_flag THEN "uploading" ELSE "completed")
    /\ UNCHANGED <<disk, calls, failures, next_id, req, view, detail_vars>>

\* line 239
ExecUploading(j) ==
    /\ task[j].pc = "uploading"
    /\ Update(j, "uploading", NoKwargs)
    /\ Goto(j, "upload_to_drive")
    /\ UNCHANGED <<disk, calls, failures, next_id, req, view, detail_vars>>

\* upload_to_drive: the file metadata the upload returns, with or without a
\* webViewLink, or None: every exception is caught inside, and upload_file
\* returns None for a file that is not on disk.
upload_to_drive(file) ==
    IF file = "absent"
    THEN {Null}
    ELSE {"metadata_with_link", "metadata_without_link", Null}

\* upload_result.get('webViewLink')
webViewLink(upload_result) ==
    IF upload_result = "metadata_with_link" THEN "https://drive.google.com/file" ELSE Null

\* lines 240-242
ExecUploadToDrive(j) ==
    /\ task[j].pc = "upload_to_drive"
    /\ Called(j, "upload")
    /\ \E upload_result \in upload_to_drive(disk[OutputFile(j)]) :
         IF upload_result # Null
         THEN /\ task' = [task EXCEPT ![j].pc = "completed_uploaded",
                                      ![j].upload_result = upload_result]
              /\ UNCHANGED failures
         ELSE /\ Goto(j, "upload_failed")
              /\ failures' = [failures EXCEPT ![j] = @ \cup {"upload"}]
    /\ UNCHANGED <<active_sessions, disk, ignored, next_id, req, view, detail_vars>>

\* lines 243-245
ExecCompletedUploaded(j) ==
    /\ task[j].pc = "completed_uploaded"
    /\ Update(j, "completed",
                              [drive_link |-> webViewLink(task[j].upload_result)])
    /\ Goto(j, "finally")
    /\ UNCHANGED <<disk, calls, failures, next_id, req, view, detail_vars>>

\* lines 247-248
ExecUploadFailed(j) ==
    /\ task[j].pc = "upload_failed"
    /\ Update(j, "upload_failed",
                              [error_message |-> "Failed to upload to Google Drive"])
    /\ Goto(j, "finally")
    /\ UNCHANGED <<disk, calls, failures, next_id, req, view, detail_vars>>

\* Variant of lines 250-251 that reports a link although nothing was uploaded.
ExecCompleted_WritesLink(j) ==
    /\ task[j].pc = "completed"
    /\ Update(j, "completed", [drive_link |-> webViewLink("metadata_with_link")])
    /\ Goto(j, "finally")
    /\ UNCHANGED <<disk, calls, failures, next_id, req, view, detail_vars>>

\* lines 250-251
ExecCompleted(j) ==
    /\ task[j].pc = "completed"
    /\ Update(j, "completed", NoKwargs)
    /\ Goto(j, "finally")
    /\ UNCHANGED <<disk, calls, failures, next_id, req, view, detail_vars>>

\* A failed capture reported through the generic stage.
ExecRecordingFailed_AsError(j) ==
    /\ task[j].pc = "recording_failed"
    /\ Update(j, "error", [error_message |-> "Recording failed"])
    /\ Goto(j, "finally")
    /\ UNCHANGED <<disk, calls, failures, next_id, req, view, detail_vars>>

\* lines 253-254
ExecRecordingFailed(j) ==
    /\ task[j].pc = "recording_failed"
    /\ Update(j, "recording_failed",
                              [error_message |-> "Recording failed"])
    /\ Goto(j, "finally")
    /\ UNCHANGED <<disk, calls, failures, next_id, req, view, detail_vars>>

\* lines 256-257: driver.quit() in the finally clause of the inner try.  If it
\* returns, a pending exception goes on to the handler, and without one the
\* function returns; if it raises, its exception replaces the pending one.
ExecFinally(j) ==
    /\ task[j].pc = "finally"
    /\ Called(j, "quit")
    /\ \E quit_raised \in BOOLEAN :
         IF quit_raised
         THEN /\ task' = [task EXCEPT ![j].pc = "except", ![j].driver = "quit",
                                      ![j].exc = "quit error"]
              /\ failures' = [failures EXCEPT ![j] = @ \cup {"quit"}]
         ELSE /\ task' = [task EXCEPT ![j].driver = "quit",
                             ![j].pc = IF task[j].exc # Null THEN "except" ELSE "returned"]
              /\ UNCHANGED failures
    /\ UNCHANGED <<active_sessions, disk, ignored, next_id, req, view, detail_vars>>

\* The handler with an update that raises KeyError for a missing id: the
\* exception leaves the function.
ExecExcept_DiesWhenRemoved(j) ==
    /\ task[j].pc = "except"
    /\ Update(j, "error", [error_message |-> task[j].exc])
    /\ task' = IF j \in DOMAIN active_sessions
               THEN [task EXCEPT ![j].pc = "returned", ![j].exc = Null]
               ELSE [task EXCEPT ![j].pc = "raised"]
    /\ UNCHANGED <<disk, calls, failures, next_id, req, view, detail_vars>>

\* lines 259-261: the handler of the outer try catches every Exception
ExecExcept(j) ==
    /\ task[j].pc = "except"
    /\ Update(j, "error",
                              [error_message |-> task[j].exc])
    /\ task' = [task EXCEPT ![j].pc = "returned", ![j].exc = Null]
    /\ UNCHANGED <<disk, calls, failures, next_id, req, view, detail_vars>>

record_meeting_session(j) ==
    \/ ExecStarting(j)
    \/ ExecCredentials(j)
    \/ ExecChrome(j)
    \/ ExecLoggingIn(j)
    \/ ExecGoogleLogin(j)
    \/ ExecJoiningMeeting(j)
    \/ ExecJoin(j)
    \/ ExecRecording(j)
    \/ ExecStartRecording(j)
    \/ ExecRecordingComplete(j)
    \/ ExecUploading(j)
    \/ ExecUploadToDrive(j)
    \/ ExecCompletedUploaded(j)
    \/ ExecUploadFailed(j)
    \/ ExecCompleted(j)
    \/ ExecRecordingFailed(j)
    \/ ExecFinally(j)
    \/ ExecExcept(j)

----------------------------------------------------------------------------
\* Orchestrator facade: removal.  delete_session takes the lock twice, and
\* touches the disk in between, outside the lock.

\* lines 353-356: copy the record, or answer 404
DeleteLookup(session_id) ==
    /\ req = Idle
    /\ LET session == get_session_data(active_sessions, session_id)
       IN  IF session = <<>>
           THEN UNCHANGED req
           ELSE req' = [op |-> "delete", pc |-> "cleanup", session_id |-> session_id,
                        recording_file |-> session[1].recording_file,
                        removal |-> "none"]
    /\ UNCHANGED <<active_sessions, task, disk, calls, failures, ignored, next_id>>

\* lines 359-364: remove the file the copy names if it exists; a failing
\* os.remove is logged
DeleteCleanup ==
    /\ req.op = "delete"
    /\ req.pc = "cleanup"
    /\ IF req.recording_file # Null /\ disk[req.recording_file] # "absent"
       THEN \E removed \in BOOLEAN :
              /\ disk' = IF removed THEN [disk EXCEPT ![req.recording_file] = "absent"]
                         ELSE disk
              /\ req' = [req EXCEPT !.pc = "remove",
                                    !.removal = IF removed THEN "done" ELSE "failed"]
       ELSE /\ UNCHANGED disk
            /\ req' = [req EXCEPT !.pc = "remove"]
    /\ UNCHANGED <<active_sessions, task, calls, failures, ignored, next_id>>

\* Variant of lines 367-372 in which a failed os.remove is propagated: the
\* handler ends before it reaches the del.
DeleteRemove_PropagatesFailure ==
    /\ req.op = "delete"
    /\ req.pc = "remove"
    /\ active_sessions' = IF req.removal = "failed" THEN active_sessions
                          ELSE [i \in DOMAIN active_sessions \ {req.session_id} |->
                                  active_sessions[i]]
    /\ req' = Idle
    /\ UNCHANGED <<task, disk, calls, failures, ignored, next_id>>

\* lines 367-372
DeleteRemove ==
    /\ req.op = "delete"
    /\ req.pc = "remove"
    /\ active_sessions' = [i \in DOMAIN active_sessions \ {req.session_id} |->
                             active_sessions[i]]
    /\ req' = Idle
    /\ UNCHANGED <<task, disk, calls, failures, ignored, next_id>>

delete_session ==
    \/ \E session_id \in JobIds : DeleteLookup(session_id) /\ UNCHANGED <<view, detail_vars>>
    \/ DeleteCleanup /\ UNCHANGED <<view, detail_vars>>
    \/ DeleteRemove /\ UNCHANGED <<view, detail_vars>>

-----------------------------------------------------------------------------
\* The program on its own: no client keeps a response.
Next ==
    \/ Submit
    \/ \E j \in JobIds : record_meeting_session(j)
    \/ delete_session

Spec == Init /\ [][Next]_vars

\* The framework runs every added background task, and a running thread
\* keeps being scheduled; every collaborator call returns or raises.
FairSpec ==
    Spec /\ \A j \in JobIds : WF_vars(record_meeting_session(j))

-----------------------------------------------------------------------------
\* The registry under the updates of several tasks.  The records of
\* MaxRecords accepted submissions, some of them already removed, receive the
\* calls of update_session_status that record_meeting_session makes, in any
\* order and for any id.  The variables outside the registry play no part
\* here and keep their initial values.

\* Number of records in the registry under update.
MaxRecords == 2

RecordIds == 1..MaxRecords

\* The record of lines 289-301 for a request with the default fields.
QueuedSession(session_id) ==
    [session_id |-> session_id,
     meeting_url |-> "https://meet.google.com/xyz-abcd-efg",
     meeting_id |-> "xyz-abcd-efg",
     duration_minutes |-> DefaultDuration,
     upload_to_drive |-> TRUE,
     folder_name |-> DefaultFolder,
     status |-> "queued",
     created_at |-> session_id,
     recording_file |-> Null,
     drive_link |-> Null,
     error_message |-> Null]

\* The calls of update_session_status in record_meeting_session, in source
\* order (lines 196, 211, 216, 228, 235, 239, 243 with and without a link,
\* 247, 250, 253, 261): the status and the keyword arguments.
UpdateCalls(session_id) ==
    << [status |-> "starting", kwargs |-> NoKwargs],
       [status |-> "logging_in", kwargs |-> NoKwargs],
       [status |-> "joining_meeting", kwargs |-> NoKwargs],
       [status |-> "recording", kwargs |-> NoKwargs],
       [status |-> "recording_complete",
        kwargs |-> [recording_file |-> "recording_" \o ToString(session_id) \o ".mp3"]],
       [status |-> "uploading", kwargs |-> NoKwargs],
       [status |-> "completed",
        kwargs |-> [drive_link |-> webViewLink("metadata_with_link")]],
       [status |-> "completed",
        kwargs |-> [drive_link |-> webViewLink("metadata_without_link")]],
       [status |-> "upload_failed",
        kwargs |-> [error_message |-> "Failed to upload to Google Drive"]],
       [status |-> "completed", kwargs |-> NoKwargs],
       [status |-> "recording_failed", kwargs |-> [error_message |-> "Recording failed"]],
       [status |-> "error", kwargs |-> [error_message |-> "TimeoutException"]] >>

UpdateInit ==
    /\ active_sessions \in {[i \in ids |-> QueuedSession(i)] : ids \in SUBSET RecordIds}
    /\ task = [j \in JobIds |-> NotDispatched]
    /\ disk = [f \in Files |-> "absent"]
    /\ calls = [j \in JobIds |-> NoCalls]
    /\ failures = [j \in JobIds |-> {}]
    /\ ignored = {}
    /\ next_id = 1
    /\ req = Idle
    /\ view = NoView
    /\ lock = {}
    /\ thread = [t \in Threads |-> Resting]
    /\ capture = NotCalled
    /\ removers = [c \in Removers |-> NotSent]

\* The task of session_id makes its k-th call.
UpdateCall(session_id, k) ==
    /\ active_sessions' = update_session_status(active_sessions, session_id,
                                                UpdateCalls(session_id)[k].status,
                                                UpdateCalls(session_id)[k].kwargs)
    /\ UNCHANGED <<task, disk, calls, failures, ignored, next_id, req, view, detail_vars>>

UpdateNext ==
    \E session_id \in RecordIds :
        \E k \in DOMAIN UpdateCalls(session_id) : UpdateCall(session_id, k)

UpdateSpec == UpdateInit /\ [][UpdateNext]_vars

----------------------------------------------------------------------------
\* The program with a client that keeps the last response it received.

\* The SessionStatus built by get_session_status from the copy (lines 335-341).
SessionStatus(session_id, session) ==
    [session_id |-> session_id,
     status |-> session.status,
     recording_file |-> session.recording_file,
     drive_link |-> session.drive_link,
     error_message |-> session.error_message]

\* get_session_status: 404 for an unknown id, else the fields of the copy
\* that get_session_data took under the lock.
get_session_status(sessions, session_id) ==
    LET session == get_session_data(sessions, session_id)
    IN  IF session = <<>>
        THEN [op |-> "status", code |-> 404, session_id |-> session_id]
        ELSE [op |-> "status", code |-> 200, session_id |-> session_id,
              body |-> SessionStatus(session_id, session[1])]

\* The ids of a set in ascending order: the insertion order of the dict,
\* since ids are handed out in ascending order.
RECURSIVE InsertionOrder(_)
InsertionOrder(ids) ==
    IF ids = {} THEN <<>>
    ELSE LET first == CHOOSE i \in ids : \A k \in ids : i <= k
         IN  <<first>> \o InsertionOrder(ids \ {first})

\* list_sessions: under the lock, list(active_sessions.values()), a new list
\* of the dicts that are in the map: each element is a reference to a record,
\* written here as its id, and the response is read through it afterwards.
list_sessions(sessions) ==
    [op |-> "list", code |-> 200, sessions |-> InsertionOrder(DOMAIN sessions)]

\* What the holder of a list response reads through its references when the
\* registry is sessions: the records themselves, not copies.  A record that
\* has been removed from the map is no longer written (update_session_status
\* skips it), so only the records still in the map are of interest.
Deref(response, sessions) ==
    [id \in {response.sessions[k] : k \in DOMAIN response.sessions} \cap DOMAIN sessions |->
        sessions[id]]

\* The MeetingResponse of lines 313-319, or the 400 of line 322.
ClientSubmit ==
    \E request \in Requests :
        /\ start_meeting_recording(request)
        /\ view' = IF extract_meeting_id(request.meeting_url) = "ValueError"
                   THEN [op |-> "submit", code |-> 400]
                   ELSE [op |-> "submit", code |-> 200, session_id |-> next_id,
                         status |-> "queued"]
        /\ UNCHANGED detail_vars

ClientStatus ==
    \E session_id \in JobIds :
        /\ req = Idle
        /\ view' = get_session_status(active_sessions, session_id)
        /\ UNCHANGED <<program_vars, detail_vars>>

ClientList ==
    /\ req = Idle
    /\ view' = list_sessions(active_sessions)
    /\ UNCHANGED <<program_vars, detail_vars>>

\* delete_session answers 404 at line 356 and 200 at line 372.
ClientDelete ==
    \/ \E session_id \in JobIds :
          /\ DeleteLookup(session_id)
          /\ view' = IF session_id \in DOMAIN active_sessions THEN view
                     ELSE [op |-> "delete", code |-> 404, session_id |-> session_id]
          /\ UNCHANGED detail_vars
    \/ DeleteCleanup /\ UNCHANGED <<view, detail_vars>>
    \/ /\ DeleteRemove
       /\ view' = [op |-> "delete", code |-> 200, session_id |-> req.session_id]
       /\ UNCHANGED detail_vars

ClientNext ==
    \/ ClientSubmit
    \/ ClientStatus
    \/ ClientList
    \/ ClientDelete
    \/ \E j \in JobIds : record_meeting_session(j)

ClientSpec == Init /\ [][ClientNext]_vars

-----------------------------------------------------------------------------
\* The registry operations at the level of sessions_lock.  Each operation is
\* the sequence of things its code does, with "acquire" and "release" for the
\* entry and the exit of a `with sessions_lock:` block.  The event loop runs
\* the handlers one at a time; each worker runs the registry updates and the
\* collaborator calls of one background task.

\* Variant in which the upload is made inside a critical section.
Program_UploadUnderLock(op) ==
    [update         |-> <<"acquire", "lookup", "assign", "assign", "log", "release">>,
     update_missing |-> <<"acquire", "lookup", "release">>,
     get            |-> <<"acquire", "lookup", "copy", "release">>,
     get_missing    |-> <<"acquire", "lookup", "release">>,
     create         |-> <<"acquire", "clock", "assign", "release">>,
     list           |-> <<"acquire", "copy", "release">>,
     delete         |-> <<"acquire", "lookup", "copy", "release", "file", "log",
                          "acquire", "lookup", "delete", "release", "log">>,
     login          |-> <<"login">>,
     join           |-> <<"join">>,
     capture        |-> <<"capture">>,
     upload         |-> <<"acquire", "upload", "assign", "release">>][op]

\* update: update_session_status for an id in the map, lines 65-70 (the
\* logger.info of line 70 is inside the with block); update_missing: the same
\* for an id that is not in the map.  get, get_missing: get_session_data,
\* lines 74-75.  create: lines 288-301 (the record literal reads the clock).
\* list: lines 345-346.  delete: delete_session, lines 353-371, for a record
\* that names a file: the look-up, os.path.exists and os.remove with their
\* log line outside the lock, the del of lines 367-369 and the log line 371.
\* login, join, capture, upload: the calls of lines 212, 217-225, 232, 240.
Program(op) ==
    [update         |-> <<"acquire", "lookup", "assign", "assign", "log", "release">>,
     update_missing |-> <<"acquire", "lookup", "release">>,
     get            |-> <<"acquire", "lookup", "copy", "release">>,
     get_missing    |-> <<"acquire", "lookup", "release">>,
     create         |-> <<"acquire", "clock", "assign", "release">>,
     list           |-> <<"acquire", "copy", "release">>,
     delete         |-> <<"acquire", "lookup", "copy", "release", "file", "log",
                          "acquire", "lookup", "delete", "release", "log">>,
     login          |-> <<"login">>,
     join           |-> <<"join">>,
     capture        |-> <<"capture">>,
     upload         |-> <<"upload">>][op]

\* What the handlers do with the registry, and what a background task does.
LoopOps == {"create", "get", "get_missing", "list", "delete"}

WorkerOps == {"update", "update_missing", "login", "join", "capture", "upload"}

\* The collaborator calls in which a background task waits.
Blocking == {"login", "join", "capture", "upload"}

\* What thread t is about to do, or is waiting in.
Kind(t) ==
    IF thread[t] = Resting THEN "none" ELSE Program(thread[t].op)[thread[t].pc]

Advance(t) ==
    thread' = [thread EXCEPT ![t] =
                  IF @.pc = Len(Program(@.op)) THEN Resting
                  ELSE [@ EXCEPT !.pc = @ + 1]]

LockBegin(t) ==
    /\ thread[t] = Resting
    /\ \E op \in (IF t = 0 THEN LoopOps ELSE WorkerOps) :
          thread' = [thread EXCEPT ![t] = [op |-> op, pc |-> 1]]
    /\ UNCHANGED <<program_vars, view, removers, capture, lock>>

\* threading.Lock: entering the with block waits until the lock is free.
LockAcquire(t) ==
    /\ Kind(t) = "acquire"
    /\ lock = {}
    /\ lock' = {t}
    /\ Advance(t)
    /\ UNCHANGED <<program_vars, view, removers, capture>>

LockRelease(t) ==
    /\ Kind(t) = "release"
    /\ lock' = lock \ {t}
    /\ Advance(t)
    /\ UNCHANGED <<program_vars, view, removers, capture>>

\* Any other statement, and the return of a collaborator call.
LockedStep(t) ==
    /\ Kind(t) \notin {"none", "acquire", "release"}
    /\ Advance(t)
    /\ UNCHANGED <<program_vars, view, removers, capture, lock>>

LockNext ==
    \E t \in Threads :
        \/ LockBegin(t)
        \/ LockAcquire(t)
        \/ LockRelease(t)
        \/ LockedStep(t)

LockSpec == Init /\ [][LockNext]_vars

-----------------------------------------------------------------------------
\* The capture function statement by statement: start_recording of app.py
\* and start_ffmpeg_record of main.py, which differ only in what they return.
\* ffmpeg runs beside the caller: it writes its output file and may exit at
\* any time by itself.

CaptureFns == {"start_recording", "start_ffmpeg_record"}

\* duration_minutes * 60 for the durations a record can hold.
CaptureDurations == {DefaultDuration * 60, (0 - 1) * 60}

\* A new call.
CaptureCall ==
    /\ capture.pc = "done"
    /\ \E fn \in CaptureFns, duration \in CaptureDurations :
          capture' = [fn |-> fn, duration |-> duration, pc |-> "popen",
                      process |-> "none", signals |-> <<>>, timed_out |-> FALSE,
                      pending |-> Null, file |-> "absent", result |-> "none"]
    /\ UNCHANGED <<program_vars, view, removers, lock, thread>>

\* subprocess.Popen (app.py line 155, main.py line 68), outside the try: a
\* failure to start ffmpeg leaves the function with no process.
CapturePopen ==
    /\ capture.pc = "popen"
    /\ \E started \in BOOLEAN :
          capture' = IF started
                     THEN [capture EXCEPT !.process = "running", !.pc = "sleep"]
                     ELSE [capture EXCEPT !.pending = "OSError", !.result = "raised",
                                          !.pc = "done"]
    /\ UNCHANGED <<program_vars, view, removers, lock, thread>>

\* ffmpeg itself: it creates and fills the output file, or exits.
ProcessRuns ==
    /\ capture.process = "running"
    /\ \/ /\ capture.file # "full"
          /\ capture' = [capture EXCEPT !.file = IF @ = "absent" THEN "empty" ELSE "full"]
       \/ capture' = [capture EXCEPT !.process = "exited"]
    /\ UNCHANGED <<program_vars, view, removers, lock, thread>>

\* The sleep with the try that has no finally clause: an exception leaves
\* the function at once.
CaptureSleep_NoFinally ==
    /\ capture.pc = "sleep"
    /\ \E interrupted \in BOOLEAN :
          capture' = IF capture.duration < 0
                     THEN [capture EXCEPT !.pending = "ValueError",
                                          !.result = "raised", !.pc = "done"]
                     ELSE IF interrupted
                     THEN [capture EXCEPT !.pending = "interrupt",
                                          !.result = "raised", !.pc = "done"]
                     ELSE [capture EXCEPT !.pc = "terminate"]
    /\ UNCHANGED <<program_vars, view, removers, lock, thread>>

\* time.sleep inside the try (app.py 157-159, main.py 70-72): it returns after
\* the duration, raises ValueError for a negative one, or is interrupted; in
\* every case control goes to the finally clause.
CaptureSleep ==
    /\ capture.pc = "sleep"
    /\ \E interrupted \in BOOLEAN :
          capture' = [capture EXCEPT
                        !.pending = IF capture.duration < 0 THEN "ValueError"
                                    ELSE IF interrupted THEN "interrupt"
                                    ELSE Null,
                        !.pc = "terminate"]
    /\ UNCHANGED <<program_vars, view, removers, lock, thread>>

\* process.terminate() (app.py 160, main.py 73)
CaptureTerminate ==
    /\ capture.pc = "terminate"
    /\ capture' = [capture EXCEPT !.signals = Append(@, "terminate"), !.pc = "wait"]
    /\ UNCHANGED <<program_vars, view, removers, lock, thread>>

\* process.wait(timeout=10) (app.py 161-162, main.py 74-75): it returns when
\* the process has exited and raises TimeoutExpired when the process is still
\* running after the ten seconds.
CaptureWait ==
    /\ capture.pc = "wait"
    /\ capture' = IF capture.process = "exited"
                  THEN [capture EXCEPT !.pc = "finish"]
                  ELSE [capture EXCEPT !.timed_out = TRUE, !.pc = "kill"]
    /\ UNCHANGED <<program_vars, view, removers, lock, thread>>

\* process.kill() in the except clause (app.py 163-164, main.py 76-77)
CaptureKill ==
    /\ capture.pc = "kill"
    /\ capture' = [capture EXCEPT !.signals = Append(@, "kill"),
                                  !.process = IF @ = "running" THEN "killed" ELSE @,
                                  !.pc = "finish"]
    /\ UNCHANGED <<program_vars, view, removers, lock, thread>>

\* The end of the finally clause: a pending exception goes on to the caller;
\* otherwise start_recording returns os.path.exists(output_file) (line 166)
\* and start_ffmpeg_record returns None.
CaptureFinish ==
    /\ capture.pc = "finish"
    /\ capture' = [capture EXCEPT
                     !.result = IF capture.pending # Null THEN "raised"
                                ELSE IF capture.fn = "start_ffmpeg_record" THEN "None"
                                ELSE IF capture.file # "absent" THEN "True"
                                ELSE "False",
                     !.pc = "done"]
    /\ UNCHANGED <<program_vars, view, removers, lock, thread>>

CaptureNext ==
    \/ CaptureCall
    \/ CapturePopen
    \/ ProcessRuns
    \/ CaptureSleep
    \/ CaptureTerminate
    \/ CaptureWait
    \/ CaptureKill
    \/ CaptureFinish

CaptureSpec == Init /\ [][CaptureNext]_vars

-----------------------------------------------------------------------------
\* The program with several clients that each send one DELETE for a session
\* that is in the registry.  The requests wait at the server until the event
\* loop, which runs one handler at a time, takes them up.

\* A client sends DELETE /sessions/{session_id}.
RemoveSend(c, session_id) ==
    /\ removers[c] = NotSent
    /\ session_id \in DOMAIN active_sessions
    /\ removers' = [removers EXCEPT ![c] = [state |-> "sent", session_id |-> session_id]]
    /\ UNCHANGED <<program_vars, view, lock, thread, capture>>

\* Variant for handlers that run in parallel threads: a request for the
\* session that another handler is deleting does its look-up beside it.
RemoveDispatch_InParallel(c) ==
    /\ removers[c].state = "sent"
    /\ \/ /\ DeleteLookup(removers[c].session_id)
          /\ removers' = [removers EXCEPT ![c].state =
                             IF removers[c].session_id \in DOMAIN active_sessions
                             THEN "running" ELSE "404"]
       \/ /\ req.op = "delete"
          /\ req.session_id = removers[c].session_id
          /\ removers[c].session_id \in DOMAIN active_sessions
          /\ removers' = [removers EXCEPT ![c].state = "running"]
          /\ UNCHANGED program_vars
    /\ UNCHANGED <<view, lock, thread, capture>>

\* The event loop takes up a waiting request: delete_session runs its
\* look-up (lines 353-356) and answers 404 or goes on.
RemoveDispatch(c) ==
    /\ removers[c].state = "sent"
    /\ DeleteLookup(removers[c].session_id)
    /\ removers' = [removers EXCEPT ![c].state =
                       IF removers[c].session_id \in DOMAIN active_sessions
                       THEN "running" ELSE "404"]
    /\ UNCHANGED <<view, lock, thread, capture>>

\* lines 359-364
RemoveCleanup == DeleteCleanup /\ UNCHANGED <<view, detail_vars>>

\* lines 367-372: the entry is deleted and the handler answers 200.
RemoveFinish ==
    /\ DeleteRemove
    /\ removers' = [c \in Removers |->
                      IF removers[c].state = "running"
                      THEN [removers[c] EXCEPT !.state = "200"]
                      ELSE removers[c]]
    /\ UNCHANGED <<view, lock, thread, capture>>

RemoveNext ==
    \/ Submit
    \/ \E j \in JobIds : record_meeting_session(j)
    \/ \E c \in Removers : \E session_id \in JobIds : RemoveSend(c, session_id)
    \/ \E c \in Removers : RemoveDispatch(c)
    \/ RemoveCleanup
    \/ RemoveFinish

RemoveSpec == Init /\ [][RemoveNext]_vars

-----------------------------------------------------------------------------
\* The program with the example client of client_example.py: main() starts
\* one recording and then polls its status until it sees a stage on which it
\* stops, or until the status request fails.  Other clients may submit and
\* delete meanwhile.

\* The stop set without the stage error.
StopStatuses_WithoutError == {"completed", "recording_failed", "upload_failed"}

\* The stages on which the loop breaks (client_example.py line 82).
StopStatuses == {"completed", "error", "recording_failed", "upload_failed"}

\* The loop is running: the submission was accepted, and the last status
\* request, if any, succeeded with a stage outside the stop set.  A failed
\* status request (check_status returns None for a 404) ends the loop.
Polling ==
    \/ view.op = "submit" /\ view.code = 200
    \/ view.op = "status" /\ view.code = 200 /\ view.body.status \notin StopStatuses

\* result = start_recording(...) (client_example.py lines 68-71)
PollStart ==
    /\ view = NoView
    /\ ClientSubmit

\* status = check_status(session_id) (client_example.py line 78)
PollCheck ==
    /\ Polling
    /\ req = Idle
    /\ view' = get_session_status(active_sessions, view.session_id)
    /\ UNCHANGED <<program_vars, detail_vars>>

PollNext ==
    \/ PollStart
    \/ PollCheck
    \/ Submit
    \/ \E j \in JobIds : record_meeting_session(j)
    \/ delete_session

PollSpec == Init /\ [][PollNext]_vars

\* Every background task keeps running, a handler that was started runs to
\* its end, and the client keeps polling.
PollFairSpec ==
    /\ PollSpec
    /\ \A j \in JobIds : WF_vars(record_meeting_session(j))
    /\ WF_vars(DeleteCleanup /\ UNCHANGED <<view, detail_vars>>)
    /\ WF_vars(DeleteRemove /\ UNCHANGED <<view, detail_vars>>)
    /\ WF_vars(PollCheck)

----------------------------------------------------------------------------
\* Properties.

Present(j) == j \in DOMAIN active_sessions

Returned(j) == task[j].pc = "returned"

\* The defined path, in the stage names of app.py.
PathEdges ==
    { <<"queued", "starting">>, <<"starting", "logging_in">>,
      <<"logging_in", "joining_meeting">>, <<"joining_meeting", "recording">>,
      <<"recording", "recording_complete">>, <<"recording_complete", "uploading">>,
      <<"uploading", "completed">>, <<"recording_complete", "completed">> }

\* C1: every change of a record's stage follows an edge of the defined path
\* or leads from a stage that is not terminal to a failure terminal, so a
\* poller sees a subsequence of the path that ends in at most one failure
\* terminal.
C1_StagesFollowThePath ==
    [][\A j \in JobIds :
          (Present(j) /\ j \in DOMAIN active_sessions'
              /\ active_sessions'[j].status # active_sessions[j].status)
          => \/ <<active_sessions[j].status, active_sessions'[j].status>> \in PathEdges
             \/ /\ active_sessions[j].status \notin Terminal
                /\ active_sessions'[j].status \in FailureTerminal]_vars

\* C2: once a record's stage is terminal it never changes again.
C2_TerminalIsAbsorbing ==
    [][\A j \in JobIds :
          (Present(j) /\ j \in DOMAIN active_sessions'
              /\ active_sessions[j].status \in Terminal)
          => active_sessions'[j].status = active_sessions[j].status]_vars

\* C3: driver.quit() is called at most once per job and only on a session
\* that was opened, and when the task has returned every opened session has
\* been released.
C3_SessionReleasedExactlyOnce ==
    \A j \in JobIds :
        /\ calls[j].quit <= calls[j].chrome
        /\ calls[j].quit <= 1
        /\ Returned(j) => (calls[j].quit = calls[j].chrome /\ task[j].driver # "open")

\* C3 witness: a task that failed after opening its session has returned
\* with the session released, its record having been removed while it ran.
C3_Witness ==
    \E j \in JobIds :
        /\ Returned(j)
        /\ calls[j].chrome = 1 /\ calls[j].quit = 1
        /\ failures[j] # {}
        /\ j \in ignored

\* C4: an id that was removed from the registry never comes back.
C4_DeletedNeverResurrects ==
    [][\A j \in JobIds :
          (j < next_id /\ ~Present(j)) => j \notin DOMAIN active_sessions']_vars

\* C4 witness: the task issued an update after its record was removed, and
\* the id is still absent.
C4_Witness ==
    \E j \in JobIds : j \in ignored /\ ~Present(j) /\ Returned(j)

\* The terminal the specification assigns to each failing collaborator
\* (capture_failed is recording_failed in app.py).
MatchingTerminal ==
    [login |-> "auth_failed", join |-> "join_failed",
     capture_raised |-> "recording_failed", capture_false |-> "recording_failed",
     upload |-> "upload_failed"]

FailureMessage ==
    [credentials |-> "Gmail credentials not found in environment variables",
     chrome |-> "WebDriverException",
     login |-> "Failed to login to Google account",
     join |-> "TimeoutException",
     capture_raised |-> "capture error",
     quit |-> "quit error"]

C6_FailureStopsThePipeline ==
    \A j \in JobIds :
        /\ failures[j] \cap {"credentials", "chrome"} # {} => calls[j].login = 0
        /\ failures[j] \cap {"credentials", "chrome", "login"} # {} => calls[j].join = 0
        /\ failures[j] \cap {"credentials", "chrome", "login", "join"} # {} =>
              calls[j].capture = 0
        /\ failures[j] \cap {"credentials", "chrome", "login", "join",
                             "capture_raised", "capture_false"} # {} =>
              calls[j].upload = 0
        /\ ("login" \in failures[j] /\ Returned(j) /\ Present(j)) =>
              /\ active_sessions[j].status \in FailureTerminal
              /\ active_sessions[j].error_message # Null

\* C6 witness: a job whose login was attempted and failed has ended.
C6_Witness ==
    \E j \in JobIds :
        /\ Returned(j) /\ Present(j)
        /\ "login" \in failures[j]
        /\ calls[j].login = 1
        /\ active_sessions[j].status = "error"

\* C7: a job whose upload failed ends in upload_failed with a failure reason,
\* its artifact path set and no remote link, and its file is still on disk
\* unless a removal of the job is deleting it.
C7_UploadFailureKeepsArtifact ==
    \A j \in JobIds :
        (Returned(j) /\ Present(j) /\ "upload" \in failures[j])
        => /\ active_sessions[j].status = "upload_failed"
           /\ active_sessions[j].error_message # Null
           /\ active_sessions[j].recording_file = OutputFile(j)
           /\ active_sessions[j].drive_link = Null
           /\ req = Idle => disk[OutputFile(j)] # "absent"

\* A collaborator of the stages before the upload failed.
CollaboratorFailed(j) ==
    failures[j] \cap {"credentials", "chrome", "login", "join",
                      "capture_raised", "capture_false"} # {}

\* C8: a job submitted without upload never invokes the upload collaborator
\* and never shows uploading or a remote link; its stage becomes completed
\* only from recording_complete; and unless a collaborator fails or the record
\* is removed, its record reaches completed with the artifact path set and no
\* remote link.
C8_NoUploadCompletes ==
    /\ [](\A j \in JobIds :
            (task[j].pc # "none" /\ ~task[j].upload_to_drive_flag)
            => /\ calls[j].upload = 0
               /\ Present(j) =>
                    /\ active_sessions[j].status \notin {"uploading", "upload_failed"}
                    /\ active_sessions[j].drive_link = Null)
    /\ [][\A j \in JobIds :
            (Present(j) /\ j \in DOMAIN active_sessions'
                /\ ~task[j].upload_to_drive_flag
                /\ active_sessions[j].status # "completed"
                /\ active_sessions'[j].status = "completed")
            => active_sessions[j].status = "recording_complete"]_vars
    /\ \A j \in JobIds :
          (task[j].pc = "queued" /\ ~task[j].upload_to_drive_flag)
          ~> \/ ~Present(j)
             \/ CollaboratorFailed(j)
             \/ /\ active_sessions[j].status = "completed"
                /\ active_sessions[j].recording_file = OutputFile(j)
                /\ active_sessions[j].drive_link = Null

\* C8 witness: a job without upload and without failure has ended in
\* completed.
C8_Witness ==
    \E j \in JobIds :
        /\ Returned(j) /\ Present(j)
        /\ ~task[j].upload_to_drive_flag
        /\ failures[j] = {}
        /\ calls[j].capture = 1
        /\ active_sessions[j].status = "completed"
        /\ active_sessions[j].recording_file = OutputFile(j)
        /\ active_sessions[j].drive_link = Null

\* C9: every dispatched task returns; the record of a returned task, if still
\* in the registry, is in a terminal stage; and a step that removes a record
\* leaves every task where it is.
C9_RunsToTheEnd ==
    /\ \A j \in JobIds : (task[j].pc = "queued") ~> Returned(j)
    /\ [](\A j \in JobIds :
            (Returned(j) /\ Present(j)) => active_sessions[j].status \in Terminal)
    /\ [][DOMAIN active_sessions' # DOMAIN active_sessions
            /\ DOMAIN active_sessions' \subseteq DOMAIN active_sessions
          => task' = task]_vars

\* C9 witness: a task whose record was removed while it ran went through
\* every stage, upload included, and returned.
C9_Witness ==
    \E j \in JobIds :
        /\ Returned(j) /\ ~Present(j)
        /\ j \in ignored
        /\ calls[j].upload = 1 /\ calls[j].quit = 1

\* C10: a pending exception is always on its way to the handler, a task ends
\* only by returning with no exception pending, and the record of a returned
\* task in which something failed carries a failure stage and a reason.
C10_NoFaultPropagates ==
    \A j \in JobIds :
        /\ task[j].exc # Null => task[j].pc \in {"finally", "except"}
        /\ task[j].pc # "raised"
        /\ (Returned(j) /\ Present(j) /\ failures[j] # {}) =>
              /\ active_sessions[j].status \in FailureTerminal
              /\ active_sessions[j].error_message # Null

\* C10 witness: the capture raised, then the release raised as well, and the
\* task returned with the record in error.
C10_Witness ==
    \E j \in JobIds :
        /\ Returned(j) /\ Present(j)
        /\ failures[j] = {"capture_raised", "quit"}
        /\ active_sessions[j].status = "error"

\* C11: a record carries a failure reason exactly while its stage is a
\* failure terminal, and the reason is written once, by the update that
\* moves the stage to that failure terminal.
C11_FailureReasonWrittenOnce ==
    /\ [](\A j \in JobIds :
            Present(j) =>
               (active_sessions[j].error_message # Null
                  <=> active_sessions[j].status \in FailureTerminal))
    /\ [][\A j \in JobIds :
            (Present(j) /\ j \in DOMAIN active_sessions'
                /\ active_sessions'[j].error_message # active_sessions[j].error_message)
            => /\ active_sessions[j].error_message = Null
               /\ active_sessions[j].status \notin FailureTerminal
               /\ active_sessions'[j].status \in FailureTerminal]_vars

\* C12: a submission with a duration of zero or less creates no record and
\* dispatches no task, and every record has a positive duration.
C12_DurationIsPositive ==
    /\ [](\A j \in JobIds : Present(j) => active_sessions[j].duration_minutes > 0)
    /\ [][\A request \in Requests :
            (/\ request.duration_minutes # <<>>
             /\ request.duration_minutes[1] <= 0
             /\ start_meeting_recording(request))
            => UNCHANGED <<active_sessions, task>>]_vars

\* The URLs that one of the three patterns of extract_meeting_id matches.
Recognized(text) ==
    \E url \in MeetingUrls :
        /\ url.text = text
        /\ (url.code # Null \/ url.query # Null \/ url.other # Null)

\* C13: a submission whose URL matches none of the patterns is answered 400
\* and changes neither the registry nor the tasks; every record and every
\* dispatched task belongs to a URL that one of the patterns matches.
C13_InvalidTargetCreatesNothing ==
    /\ [][(view' # view /\ view'.op = "submit" /\ view'.code = 400)
            => UNCHANGED <<active_sessions, task, next_id, disk>>]_vars
    /\ [](\A j \in JobIds :
            /\ Present(j) => Recognized(active_sessions[j].meeting_url)
            /\ task[j] # NotDispatched => j < next_id)
    /\ [][\A j \in JobIds :
            (task[j] = NotDispatched /\ task'[j] # NotDispatched)
            => /\ j \in DOMAIN active_sessions'
               /\ Recognized(active_sessions'[j].meeting_url)
               /\ view'.op = "submit" /\ view'.code = 200]_vars

C13_Witness ==
    /\ view = [op |-> "submit", code |-> 400]
    /\ active_sessions = <<>>
    /\ \A j \in JobIds : task[j] = NotDispatched

\* C14, as stated: the first status request a client makes for the id it was
\* just given is answered with stage queued.
C14_FirstStatusSaysQueued ==
    [][(/\ view.op = "submit"
        /\ view.code = 200
        /\ view'.op = "status"
        /\ view'.session_id = view.session_id)
       => (view'.code = 200 /\ view'.body.status = "queued")]_vars

\* C14: the step that accepts a submission inserts the record in stage queued
\* and dispatches its task at the start of the pipeline with no collaborator
\* called, the response and a status request on the resulting state say
\* queued, and the record stays queued until the task takes its first step.
C14_SubmitAnswersQueued ==
    /\ [][\A j \in JobIds :
            (j \notin DOMAIN active_sessions /\ j \in DOMAIN active_sessions')
            => /\ active_sessions'[j].status = "queued"
               /\ task[j] = NotDispatched
               /\ task'[j].pc = "queued"
               /\ calls'[j] = NoCalls
               /\ view' = [op |-> "submit", code |-> 200, session_id |-> j,
                           status |-> "queued"]
               /\ get_session_status(active_sessions', j).code = 200
               /\ get_session_status(active_sessions', j).body.status = "queued"]_vars
    /\ [](\A j \in JobIds :
            (Present(j) /\ task[j].pc = "queued")
            => /\ active_sessions[j].status = "queued"
               /\ calls[j] = NoCalls
               /\ get_session_status(active_sessions, j).body.status = "queued")

C14_Witness ==
    \E j \in JobIds :
        /\ view = [op |-> "submit", code |-> 200, session_id |-> j, status |-> "queued"]
        /\ Present(j)
        /\ active_sessions[j].status = "queued"
        /\ task[j].pc = "queued"

\* The field combinations that an update writes together (lines 235, 243-254,
\* 261): a reason exactly with a failure stage, a stage after the capture
\* only with the recording's path, a link only where the pipeline has ended.
Untorn(session) ==
    /\ session.error_message # Null <=> session.status \in FailureTerminal
    /\ session.status \in {"recording_complete", "uploading", "upload_failed", "completed"}
          => session.recording_file # Null
    /\ session.recording_file # Null
          => session.status \in {"recording_complete", "uploading", "upload_failed",
                                 "completed", "error"}
    /\ session.drive_link # Null => session.status \in {"completed", "error"}

\* C15: a status response is the record as it was at one instant: it equals
\* the record at the moment of the read, it never combines the new stage of
\* an update with the old recording path, link or reason, and an update made
\* after the read leaves the value the reader holds alone.
C15_StatusIsAnAtomicCopy ==
    /\ [][(view' # view /\ view'.op = "status" /\ view'.code = 200)
            => /\ view'.session_id \in DOMAIN active_sessions
               /\ view'.body = SessionStatus(view'.session_id,
                                             active_sessions[view'.session_id])]_vars
    /\ []((view.op = "status" /\ view.code = 200) => Untorn(view.body))
    /\ [](\A j \in JobIds : Present(j) => Untorn(active_sessions[j]))
    /\ [][(/\ view.op = "status"
           /\ \E j \in DOMAIN active_sessions \cap DOMAIN active_sessions' :
                 active_sessions'[j] # active_sessions[j])
          => view' = view]_vars

\* A reader holding the stage it read while the record has moved on.
C15_Witness ==
    /\ view.op = "status"
    /\ view.code = 200
    /\ view.body.status = "recording"
    /\ view.session_id \in DOMAIN active_sessions
    /\ active_sessions[view.session_id].status = "recording_complete"
    /\ active_sessions[view.session_id].recording_file # Null
    /\ view.body.recording_file = Null

\* C16: while a reader holds a list response, no record of the returned
\* sequence changes: an update made after the list was taken does not show
\* through the response.
C16_ListIsASnapshot ==
    [][(view.op = "list" /\ view' = view)
       => \A id \in DOMAIN Deref(view, active_sessions) \cap DOMAIN Deref(view, active_sessions') :
             Deref(view, active_sessions')[id] = Deref(view, active_sessions)[id]]_vars

\* C17: when a removal that did not fail to delete a file takes a record out
\* of the registry and that record names a recording, the recording's file
\* is gone once the removal has returned.
C17_RemoveReleasesTheArtifact ==
    [][(/\ req.op = "delete"
        /\ req.pc = "remove"
        /\ req' = Idle
        /\ req.removal # "failed"
        /\ req.session_id \in DOMAIN active_sessions
        /\ active_sessions[req.session_id].recording_file # Null)
       => disk'[active_sessions[req.session_id].recording_file] = "absent"]_vars

\* C18: a removal of an id that is in the registry always runs to its end,
\* whatever the job's stage and whether or not the file could be deleted:
\* it answers 200 and the entry is gone from then on; a removal of an id that
\* is not in the registry answers 404 and changes neither the registry nor
\* the disk.
C18_RemoveIsAlwaysSafe ==
    /\ [][(req = Idle /\ req' # Idle)
            => /\ req'.op = "delete"
               /\ req'.pc = "cleanup"
               /\ req'.session_id \in DOMAIN active_sessions]_vars
    /\ [][(req.op = "delete" /\ req.pc = "cleanup" /\ req' # req)
            => /\ req'.pc = "remove"
               /\ active_sessions' = active_sessions]_vars
    /\ [][(req.op = "delete" /\ req.pc = "remove" /\ req' # req)
            => /\ req' = Idle
               /\ req.session_id \notin DOMAIN active_sessions'
               /\ view' = [op |-> "delete", code |-> 200,
                           session_id |-> req.session_id]]_vars
    /\ []((view.op = "delete" /\ view.code = 200)
            => view.session_id \notin DOMAIN active_sessions)
    /\ [][(view' # view /\ view'.op = "delete" /\ view'.code = 404)
            => /\ view'.session_id \notin DOMAIN active_sessions
               /\ UNCHANGED <<active_sessions, disk, task>>]_vars

\* A job removed while in flight: its file is on disk and its task is still
\* capturing.
C18_Witness ==
    \E j \in JobIds :
        /\ view = [op |-> "delete", code |-> 200, session_id |-> j]
        /\ ~Present(j)
        /\ task[j].pc \notin {"none", "returned"}
        /\ disk[OutputFile(j)] # "absent"

\* C19: a record names a recording only after the job's one capture returned
\* with its output file on disk, in a stage that follows the capture on the
\* success path; the name is written once, by the update to
\* recording_complete, and is never changed or cleared afterwards.
C19_ArtifactPathAfterCapture ==
    /\ [](\A j \in JobIds :
            (Present(j) /\ active_sessions[j].recording_file # Null)
            => /\ active_sessions[j].recording_file = OutputFile(j)
               /\ calls[j].capture = 1
               /\ failures[j] \cap {"capture_raised", "capture_false"} = {}
               /\ active_sessions[j].status \in
                    {"recording_complete", "uploading", "completed",
                     "upload_failed", "error"})
    /\ [][\A j \in JobIds :
            (/\ Present(j)
             /\ j \in DOMAIN active_sessions'
             /\ active_sessions'[j].recording_file # active_sessions[j].recording_file)
            => /\ active_sessions[j].recording_file = Null
               /\ active_sessions[j].status = "recording"
               /\ active_sessions'[j].status = "recording_complete"
               /\ disk[OutputFile(j)] # "absent"]_vars

\* A job that failed after its capture (the upload failed) still names the file.
C19_Witness ==
    \E j \in JobIds :
        /\ Present(j)
        /\ active_sessions[j].status = "upload_failed"
        /\ active_sessions[j].recording_file = OutputFile(j)
        /\ calls[j].capture = 1

\* C20: a record carries a link only if the upload was requested and the
\* job's one upload returned file metadata; the link is written at most once,
\* by the update that sets the stage to completed.
C20_RemoteLinkAfterUpload ==
    /\ [](\A j \in JobIds :
            (Present(j) /\ active_sessions[j].drive_link # Null)
            => /\ active_sessions[j].upload_to_drive
               /\ calls[j].upload = 1
               /\ "upload" \notin failures[j]
               /\ task[j].upload_result = "metadata_with_link"
               /\ active_sessions[j].status \in {"completed", "error"})
    /\ [][\A j \in JobIds :
            (/\ Present(j)
             /\ j \in DOMAIN active_sessions'
             /\ active_sessions'[j].drive_link # active_sessions[j].drive_link)
            => /\ active_sessions[j].drive_link = Null
               /\ active_sessions[j].status = "uploading"
               /\ active_sessions'[j].status = "completed"]_vars

C20_Witness ==
    \E j \in JobIds :
        /\ Present(j)
        /\ active_sessions[j].status = "completed"
        /\ active_sessions[j].drive_link = webViewLink("metadata_with_link")
        /\ active_sessions[j].upload_to_drive
        /\ calls[j].upload = 1

\* C21: the capture step hands over to recording_complete only when it left
\* a file with content on disk; when it raised, or left no file or an empty
\* one, it hands over to recording_failed.
C21_CapturedNeedsContent ==
    /\ [][\A j \in JobIds :
            (task[j].pc = "start_recording" /\ task'[j].pc # "start_recording")
            => /\ task'[j].pc = "recording_complete" <=> disk'[OutputFile(j)] = "full"
               /\ task'[j].pc \in {"recording_complete", "recording_failed"}]_vars
    /\ [][\A j \in JobIds :
            (/\ Present(j)
             /\ j \in DOMAIN active_sessions'
             /\ active_sessions[j].status # "recording_complete"
             /\ active_sessions'[j].status = "recording_complete")
            => disk[OutputFile(j)] = "full"]_vars

\* C22: within one job the login, the join, the capture and the upload are
\* each invoked at most once and in that order, a count only ever grows by
\* one call, and a task is dispatched exactly once, by the submission that
\* created its id.
C22_NoRetries ==
    /\ [](\A j \in JobIds :
            /\ \A c \in {"login", "join", "capture", "upload"} : calls[j][c] <= 1
            /\ calls[j].join > 0 => calls[j].login = 1
            /\ calls[j].capture > 0 => calls[j].join = 1
            /\ calls[j].upload > 0 => calls[j].capture = 1
            /\ task[j] # NotDispatched <=> j < next_id)
    /\ [][\A j \in JobIds :
            /\ \A c \in DOMAIN NoCalls :
                  calls'[j][c] = calls[j][c] \/ calls'[j][c] = calls[j][c] + 1
            /\ (task'[j].pc = "queued" /\ task[j].pc # "queued")
                  => /\ task[j] = NotDispatched
                     /\ j = next_id
                     /\ next_id' = next_id + 1]_vars

\* A job that went through all four collaborators, once each.
C22_Witness ==
    \E j \in JobIds :
        /\ Returned(j)
        /\ calls[j].login = 1
        /\ calls[j].join = 1
        /\ calls[j].capture = 1
        /\ calls[j].upload = 1

\* The fields of a record that are set at creation.
CreationFields ==
    {"session_id", "meeting_url", "meeting_id", "duration_minutes",
     "upload_to_drive", "folder_name", "created_at"}

\* C23: a call of update_session_status by the task of one job changes at
\* most the status, recording_file, drive_link and error_message of that
\* job's record: the creation fields of every record stay as they are, no
\* record of another job changes, and no record appears or disappears.
C23_UpdateTouchesOwnStageFields ==
    [][/\ DOMAIN active_sessions' = DOMAIN active_sessions
       /\ \A i \in DOMAIN active_sessions :
             /\ DOMAIN active_sessions'[i] = DOMAIN active_sessions[i]
             /\ \A f \in CreationFields : active_sessions'[i][f] = active_sessions[i][f]
       /\ \A session_id \in RecordIds :
             \A k \in DOMAIN UpdateCalls(session_id) :
                UpdateCall(session_id, k)
                => \A i \in DOMAIN active_sessions \ {session_id} :
                      active_sessions'[i] = active_sessions[i]]_vars

\* Two records, one driven to its end with a file and a link, the other
\* still as it was created.
C23_Witness ==
    /\ DOMAIN active_sessions = RecordIds
    /\ \E i \in RecordIds :
          /\ active_sessions[i].status = "completed"
          /\ active_sessions[i].recording_file # Null
          /\ active_sessions[i].drive_link # Null
          /\ \A f \in CreationFields : active_sessions[i][f] = QueuedSession(i)[f]
          /\ \E o \in RecordIds \ {i} : active_sessions[o] = QueuedSession(o)

\* What the claim allows inside a critical section: look-ups, copies and
\* assignments to the map (reading the clock for created_at is counted as
\* part of the assignment), and leaving the section.
InMemory == {"lookup", "copy", "assign", "delete", "clock", "release"}

\* C24: a thread that holds sessions_lock does nothing but look-ups, copies
\* and assignments: no logging, no file operation, no collaborator call.
C24_NoIOUnderLock ==
    \A t \in Threads : t \in lock => Kind(t) \in InMemory

\* C25: a worker that waits in the login, the join, the capture or the
\* upload does not hold sessions_lock; every other thread that is in a
\* registry operation can then take its next step, or waits for a lock
\* holder that is not in a collaborator call and can take its own.
C25_BlockedWorkerHoldsNoLock ==
    \A t \in Threads :
        Kind(t) \in Blocking
        => /\ t \notin lock
           /\ Cardinality(lock) <= 1
           /\ \A u \in Threads \ {t} :
                 thread[u] # Resting
                 => \/ ENABLED (LockAcquire(u) \/ LockRelease(u) \/ LockedStep(u))
                    \/ \E v \in lock \ {t, u} :
                          /\ Kind(v) \notin Blocking
                          /\ ENABLED (LockRelease(v) \/ LockedStep(v))

\* One worker waits in the capture while another worker is inside an update
\* and the event loop waits for the lock.
C25_Witness ==
    \E t, u \in Threads \ {0} :
        /\ Kind(t) = "capture"
        /\ lock = {u}
        /\ thread[u].op = "update"
        /\ Kind(0) = "acquire"

\* C26: a call of the capture function that started ffmpeg has, when it
\* returns or raises, asked the process to terminate, and no process is left
\* running; the kill follows the terminate and is made only after the wait
\* of the grace period has timed out on a process that was still running.
C26_ProcessAlwaysSignalled ==
    /\ []((capture.pc = "done" /\ capture.process # "none")
            => /\ Len(capture.signals) >= 1
               /\ capture.signals[1] = "terminate"
               /\ capture.process \in {"exited", "killed"})
    /\ [](/\ capture.signals \in {<<>>, <<"terminate">>, <<"terminate", "kill">>}
          /\ capture.signals = <<"terminate", "kill">> => capture.timed_out
          /\ capture.process = "killed" => capture.timed_out)
    /\ [][(capture'.timed_out /\ ~capture.timed_out)
            => /\ capture.process = "running"
               /\ capture.signals = <<"terminate">>]_vars

\* A capture whose sleep was interrupted and whose process had to be killed.
C26_Witness ==
    /\ capture.pc = "done"
    /\ capture.fn = "start_recording"
    /\ capture.pending = "interrupt"
    /\ capture.result = "raised"
    /\ capture.signals = <<"terminate", "kill">>
    /\ capture.process = "killed"

\* The callers of DELETE for one session, by the state of their request.
Callers(session_id, states) ==
    {c \in Removers : removers[c].session_id = session_id /\ removers[c].state \in states}

\* C27: of the requests to delete one session that were sent while it was in
\* the registry, at most one is answered 200, a 404 is given only after
\* another request was answered 200, and once all are answered exactly one
\* was answered 200; the step that answers 200 removes an entry that was
\* there.
C27_OneRemoveSucceeds ==
    /\ [](\A session_id \in JobIds :
            /\ Cardinality(Callers(session_id, {"200"})) <= 1
            /\ Cardinality(Callers(session_id, {"running"})) <= 1
            /\ Callers(session_id, {"404"}) # {}
                  => Cardinality(Callers(session_id, {"200"})) = 1
            /\ (/\ Callers(session_id, {"200", "404"}) # {}
                /\ Callers(session_id, {"sent", "running"}) = {})
                  => Cardinality(Callers(session_id, {"200"})) = 1
            /\ Callers(session_id, {"200"}) # {} => session_id \notin DOMAIN active_sessions)
    /\ [][\A c \in Removers :
            (removers[c].state # "200" /\ removers'[c].state = "200")
            => /\ removers[c].session_id \in DOMAIN active_sessions
               /\ removers[c].session_id \notin DOMAIN active_sessions']_vars

\* Two requests for the same session, both sent before either was taken up:
\* one was answered 200, the other 404.
C27_Witness ==
    \E session_id \in JobIds :
        /\ Cardinality(Callers(session_id, {"200"})) = 1
        /\ Cardinality(Callers(session_id, {"404"})) = MaxRemovers - 1

\* C28: the last stage a background task has written to its record when it
\* returns is one on which the example client stops, and the client's loop
\* ends: by such a stage, or by a failed status request once the session
\* was removed.
C28_PollingTerminates ==
    /\ [](\A j \in JobIds :
            (Returned(j) /\ Present(j)) => active_sessions[j].status \in StopStatuses)
    /\ [][(Polling /\ view'.op = "status" /\ view'.code = 404) => ~Polling']_vars
    /\ Polling ~> ~Polling

\* The client stopped on a failed status request: the job it polled has
\* finished and was removed.
C28_Witness ==
    /\ view.op = "status"
    /\ view.code = 404
    /\ Returned(view.session_id)
    /\ ~Present(view.session_id)

====
